---------------------------- MODULE Spec2Model ----------------------------
(***************************************************************************)
(* The Gaprio agent service (src/gaprio-agent): the pending-action         *)
(* lifecycle (draft, approve, execute, status update), the normalisation   *)
(* of the language model's output and the four request handlers.           *)
(*                                                                         *)
(* Python values are encoded uniformly so that TLC can compare them:       *)
(*   - None, and a dict key that is not there, is the string ABSENT;       *)
(*     an integer that is None (lastrowid, an id not yet attached) is 0;   *)
(*   - a dict is a record holding every key the code reads, ABSENT where   *)
(*     the key is missing, so d.get(k, default) is Get(d, k, default);     *)
(*   - a function's outcome is a record with a field "raised" naming the   *)
(*     exception that escaped it ("" when it returned).                    *)
(***************************************************************************)
EXTENDS Integers, Sequences, FiniteSets, TLC

VARIABLES
    connection,          \* DatabaseManager.connection: "none" (None) or "open"
    user_connections,    \* table user_connections: the (user_id, provider) pairs that hold a token
    ai_pending_actions,  \* table ai_pending_actions, in insertion (created_at) order
    request,             \* the request being answered
    env,                 \* what the collaborators did while it was handled
    resp,                \* what the handler returned
    calls,               \* collaborator calls made by the handler
    llm_response,        \* the raw model output given to _parse_llm_response
    parsed,              \* what _parse_llm_response returned for it
    dispatches           \* per action id: executor calls approve_action made for it

vars == <<connection, user_connections, ai_pending_actions, request, env,
          resp, calls, llm_response, parsed, dispatches>>

----------------------------------------------------------------------------
(* Bounds of the model                                                     *)

\* rows the table may hold
MaxRows == 2
\* actions the model proposes in one turn
MaxActions == 2
\* lines of a raw model output
MaxLines == 3
\* executor calls followed per action
MaxDispatches == 2

----------------------------------------------------------------------------
(* Python values                                                           *)

ABSENT == "<absent>"

Get(d, k, default) == IF d[k] = ABSENT THEN default ELSE d[k]

\* bool(x) of a string-valued or None value
Truthy(x) == x # ABSENT /\ x # ""

NoRaise == ""

Users == {0, 1}

\* the canonical providers of section 3 of the specification
CanonicalProviders == {"google", "asana"}

----------------------------------------------------------------------------
(* The objects the language model may put in "actions"                     *)

\* a JSON object {tool, provider, parameters}, any key possibly missing
Dict(tool, provider) ==
    [kind |-> "dict", tool |-> tool, provider |-> provider,
     parameters |-> "params", id |-> 0]

\* a JSON value that is no object (a string): it has no .get
NonDict == [kind |-> "str", tool |-> ABSENT, provider |-> ABSENT,
            parameters |-> ABSENT, id |-> 0]

ProposedItems ==
    { Dict("create_asana_task", "asana_api"),
      Dict("send_gmail", "gmail"),
      Dict("post_message", "slack"),
      Dict(ABSENT, "asana"),
      Dict("send_gmail", ABSENT),
      NonDict }

RECURSIVE SeqsUpTo(_, _)
SeqsUpTo(S, n) ==
    IF n = 0 THEN {<<>>}
    ELSE LET shorter == SeqsUpTo(S, n - 1)
         IN  shorter \cup { Append(s, x) : s \in {t \in shorter : Len(t) = n - 1}, x \in S }


Reverse(s) == [i \in 1..Len(s) |-> s[Len(s) + 1 - i]]

\* WHERE status = 'pending'
WherePending(table) ==
    LET F[i \in 0..Len(table)] ==
            IF i = 0 THEN <<>>
            ELSE IF table[i].status = "pending" THEN Append(F[i - 1], table[i])
            ELSE F[i - 1]
    IN  F[Len(table)]

\* WHERE user_id = %s
WhereUser(table, user_id) ==
    LET F[i \in 0..Len(table)] ==
            IF i = 0 THEN <<>>
            ELSE IF table[i].user_id = user_id THEN Append(F[i - 1], table[i])
            ELSE F[i - 1]
    IN  F[Len(table)]

----------------------------------------------------------------------------
(* database.py: DatabaseManager                                            *)
(*                                                                         *)
(* Every method starts with self.connection.cursor(). With connection None *)
(* that is an AttributeError, which "except Error" (mysql.connector.Error) *)
(* does not catch; a failing query on an open connection is an Error, and  *)
(* is caught. "fault" is what the database does to the call: "ok",         *)
(* "error" (the statement fails), and for an INSERT "commit_error" (the    *)
(* statement ran, autocommit is on, and the commit() after it fails).      *)

\* user_id: Optional[int] = None
NoUser == -1

Faults == {"ok", "error"}
InsertFaults == {"ok", "error", "commit_error"}

Token == "token"

Returned(v) == [raised |-> NoRaise, value |-> v]
Raised(e, v) == [raised |-> e, value |-> v]

\* a mutant: the token of any user for the provider
get_user_token_any_user(user_id, provider, fault) ==
    IF connection = "none" THEN Raised("AttributeError", ABSENT)
    ELSE IF fault = "error" THEN Returned(ABSENT)
    ELSE IF \E u \in Users : <<u, provider>> \in user_connections
         THEN Returned(Token) ELSE Returned(ABSENT)

get_user_token(user_id, provider, fault) ==
    IF connection = "none" THEN Raised("AttributeError", ABSENT)
    ELSE IF fault = "error" THEN Returned(ABSENT)
    ELSE IF <<user_id, provider>> \in user_connections
         THEN Returned(Token) ELSE Returned(ABSENT)

Row(id, user_id, provider, action_type, draft_payload) ==
    [id |-> id, user_id |-> user_id, provider |-> provider,
     action_type |-> action_type, draft_payload |-> draft_payload,
     status |-> "pending"]

\* the outcome of a call that also writes the table
Wrote(e, v, table) == [raised |-> e, value |-> v, table |-> table]

create_pending_action(table, user_id, provider, action_type, draft_payload, fault) ==
    LET lastrowid == Len(table) + 1
        inserted == Append(table, Row(lastrowid, user_id, provider, action_type, draft_payload))
    IN  IF connection = "none" THEN Wrote("AttributeError", 0, table)
        ELSE IF fault = "error" THEN Wrote(NoRaise, 0, table)
        ELSE IF fault = "commit_error" THEN Wrote(NoRaise, 0, inserted)
        ELSE Wrote(NoRaise, lastrowid, inserted)

\* a mutant: SELECT without "status = 'pending'"
get_pending_actions_any_status(table, user_id, fault) ==
    IF connection = "none" THEN Raised("AttributeError", <<>>)
    ELSE IF fault = "error" THEN Returned(<<>>)
    ELSE IF user_id # NoUser /\ user_id # 0
         THEN Returned(Reverse(WhereUser(table, user_id)))
         ELSE Returned(Reverse(table))

\* "if user_id:" is false for None and for 0
get_pending_actions(table, user_id, fault) ==
    IF connection = "none" THEN Raised("AttributeError", <<>>)
    ELSE IF fault = "error" THEN Returned(<<>>)
    ELSE IF user_id # NoUser /\ user_id # 0
         THEN Returned(Reverse(WherePending(WhereUser(table, user_id))))
         ELSE Returned(Reverse(WherePending(table)))

update_action_status(table, action_id, status, fault) ==
    IF connection = "none" THEN Wrote("AttributeError", FALSE, table)
    ELSE IF fault = "error" THEN Wrote(NoRaise, FALSE, table)
    ELSE Wrote(NoRaise, TRUE,
               [i \in 1..Len(table) |->
                   IF table[i].id = action_id
                   THEN [table[i] EXCEPT !.status = status] ELSE table[i]])

----------------------------------------------------------------------------
(* The raw output of the language model and its JSON content               *)
(*                                                                         *)
(* A raw output is a sequence of lines. A line is a fence marker (```), a  *)
(* blank line, a line that is no JSON, or a line holding one whole JSON    *)
(* document. The documents are objects with an optional "message" and an   *)
(* optional "actions", arrays, and scalars.                                *)

ActionsList(items) == [type |-> "list", items |-> items]
\* "actions": null
ActionsNull == [type |-> "null", items |-> <<>>]
\* no "actions" key
NoActions == [type |-> ABSENT, items |-> <<>>]

JObject(message, actions) ==
    [type |-> "dict", message |-> message, actions |-> actions, lit |-> ABSENT]
JArray(items) ==
    [type |-> "list", message |-> ABSENT, actions |-> ActionsList(items), lit |-> ABSENT]
JScalar(lit) ==
    [type |-> "scalar", message |-> ABSENT, actions |-> NoActions, lit |-> lit]

\* Python's str() of a parsed JSON scalar
PyStr(lit) ==
    CASE lit = "\"hi\"" -> "hi"
      [] lit = "true"   -> "True"
      [] lit = "null"   -> "None"
      [] OTHER          -> lit

Fence == [t |-> "fence", v |-> JScalar(ABSENT)]
Blank == [t |-> "blank", v |-> JScalar(ABSENT)]
Garbage == [t |-> "garbage", v |-> JScalar(ABSENT)]
JsonLine(v) == [t |-> "json", v |-> v]

\* response.strip(): leading and trailing whitespace, so blank lines, go
RECURSIVE strip(_)
strip(text) ==
    IF text = <<>> THEN text
    ELSE IF Head(text) = Blank THEN strip(Tail(text))
    ELSE IF text[Len(text)] = Blank THEN strip(SubSeq(text, 1, Len(text) - 1))
    ELSE text

\* response.startswith('```')
startswith_fence(text) == text # <<>> /\ Head(text) = Fence

\* json.loads: one document, whitespace around it allowed, nothing else
json_loads(text) ==
    LET F[i \in 0..Len(text)] ==
            IF i = 0 THEN <<>>
            ELSE IF text[i] = Blank THEN F[i - 1] ELSE Append(F[i - 1], text[i])
        content == F[Len(text)]
    IN  IF Len(content) = 1 /\ content[1].t = "json"
        THEN Returned(content[1].v)
        ELSE Raised("JSONDecodeError", JScalar(ABSENT))

----------------------------------------------------------------------------
(* agent_brain.py: AgentBrain                                              *)

Parsed(message, actions) == [raised |-> NoRaise, message |-> message, actions |-> actions]

ParseFallback == Parsed("I couldn't understand the AI output.", ActionsList(<<>>))

\* lines 98-101: strip, then drop the first and the last line of a fenced block
Unfence(response) ==
    LET stripped == strip(response)
        lines == stripped
    IN  IF startswith_fence(stripped)
        THEN IF Len(lines) > 2 THEN SubSeq(lines, 2, Len(lines) - 1) ELSE stripped
        ELSE stripped

\* the body of the try block of _parse_llm_response
ParseBody(response) ==
    LET loaded == json_loads(Unfence(response))
        data == loaded.value
    IN  IF loaded.raised # NoRaise
        THEN [raised |-> loaded.raised, message |-> ABSENT, actions |-> NoActions]
        ELSE IF data.type # "dict"
        THEN IF data.type = "list"
             THEN Parsed("I've prepared the actions you requested:", data.actions)
             ELSE Parsed(PyStr(data.lit), ActionsList(<<>>))
        ELSE Parsed(Get(data, "message", "Done."),
                    IF data.actions = NoActions THEN ActionsList(<<>>) ELSE data.actions)

\* a mutant: no "except Exception"
_parse_llm_response_uncaught(response) == ParseBody(response)

_parse_llm_response(response) ==
    LET r == ParseBody(response)
    IN  IF r.raised # NoRaise THEN ParseFallback ELSE r

\* collaborator calls a handler made
NoCalls == [token |-> 0, llm |-> 0, insert |-> 0, lookup |-> 0, executor |-> 0, update |-> 0]

\* the mapping without its second alias
MapProvider_gmail_only(action) ==
    IF Get(action, "provider", ABSENT) = "gmail"
    THEN [action EXCEPT !.provider = "google"] ELSE action

\* lines 65-72 of get_agent_response: the provider aliases
MapProvider(action) ==
    LET a1 == IF Get(action, "provider", ABSENT) = "gmail"
              THEN [action EXCEPT !.provider = "google"] ELSE action
    IN  IF Get(a1, "provider", ABSENT) = "asana_api"
        THEN [a1 EXCEPT !.provider = "asana"] ELSE a1

\* the action_type of a tool
ActionType(tool) ==
    IF tool = "send_gmail" THEN "send_email"
    ELSE IF tool = "create_asana_task" THEN "create_task"
    ELSE tool

\* "except Exception" returns None and keeps whatever the call wrote
_save_pending_action(table, user_id, action, fault) ==
    LET tool == Get(action, "tool", "")
        provider == Get(action, "provider", "")
        created == create_pending_action(table, user_id, provider, ActionType(tool),
                                         action, fault)
    IN  IF created.raised # NoRaise THEN Wrote(NoRaise, 0, created.table) ELSE created

\* the for loop of get_agent_response from actions[i] on; action.get of a
\* value that is no dict raises AttributeError and leaves the loop
RECURSIVE SaveActions(_, _, _, _, _, _)
SaveActions(table, user_id, actions, i, saved_actions, faults) ==
    IF i > Len(actions)
    THEN [raised |-> NoRaise, table |-> table, saved_actions |-> saved_actions, insert |-> i - 1]
    ELSE IF actions[i].kind # "dict"
    THEN [raised |-> "AttributeError", table |-> table, saved_actions |-> saved_actions,
          insert |-> i - 1]
    ELSE LET action == MapProvider(actions[i])
             saved == _save_pending_action(table, user_id, action, faults[i])
         IN  IF saved.value # 0
             THEN SaveActions(saved.table, user_id, actions, i + 1,
                              Append(saved_actions, [action EXCEPT !.id = saved.value]), faults)
             ELSE SaveActions(saved.table, user_id, actions, i + 1, saved_actions, faults)

Reply(e, message, plan, table, c) ==
    [raised |-> e, message |-> message, plan |-> plan, table |-> table, calls |-> c]

TurnFallback == "I encountered an internal error while thinking. Please try again."

\* llm: what self.llm.invoke did, [raised, value]; token_fault: what the
\* database did to the two token reads; faults[i]: to the i-th INSERT
get_agent_response(table, user_id, token_fault, llm, faults) ==
    LET asana_token == get_user_token(user_id, "asana", token_fault)
        gmail_token == get_user_token(user_id, "google", token_fault)
        result == _parse_llm_response(llm.value)
        actions == result.actions
        loop == SaveActions(table, user_id, actions.items, 1, <<>>, faults)
        c == [NoCalls EXCEPT !.token = 2, !.llm = 1]
    IN  IF asana_token.raised # NoRaise
        THEN Reply(asana_token.raised, ABSENT, <<>>, table, [NoCalls EXCEPT !.token = 1])
        ELSE IF gmail_token.raised # NoRaise
        THEN Reply(gmail_token.raised, ABSENT, <<>>, table, [NoCalls EXCEPT !.token = 2])
        ELSE IF llm.raised # NoRaise
        THEN Reply(NoRaise, TurnFallback, <<>>, table, c)
        ELSE IF actions.type # "list"
        THEN Reply(NoRaise, TurnFallback, <<>>, table, c)
        ELSE IF loop.raised # NoRaise
        THEN Reply(NoRaise, TurnFallback, <<>>, loop.table, [c EXCEPT !.insert = loop.insert])
        ELSE Reply(NoRaise, result.message, loop.saved_actions, loop.table,
                   [c EXCEPT !.insert = loop.insert])

\* AgentBrain.get_pending_actions
list_pending_actions(table, user_id, fault) == get_pending_actions(table, user_id, fault)

----------------------------------------------------------------------------
(* The executors (tools/asana_tool.py, tools/google_tool.py)               *)

ExecutorOutcomes == {"ok", "error", "none", "raise"}

\* a result mapping, a result carrying an error indicator, nothing, or an exception
Executor(outcome) ==
    CASE outcome = "ok"    -> Returned("result")
      [] outcome = "error" -> Returned("error result")
      [] outcome = "none"  -> Returned(ABSENT)
      [] OTHER             -> Raised("ExecutorError", ABSENT)

\* 'error' in result
HasError(result) == result = "error result"

NoError == [msg |-> ABSENT, arg |-> ABSENT]
\* f"No {provider} token found"
NoTokenError(provider) == [msg |-> "No {provider} token found", arg |-> provider]
NotFoundError == [msg |-> "Action not found", arg |-> ABSENT]
\* str(e)
ExceptionText(e) == [msg |-> "str(e)", arg |-> e]

Approved(success, error, result, table, c) ==
    [raised |-> NoRaise, success |-> success, error |-> error, result |-> result,
     table |-> table, calls |-> c]

\* next((a for a in actions if a['id'] == action_id), None): its index, 0 for None
FirstWithId(actions, action_id) ==
    IF \E i \in 1..Len(actions) : actions[i].id = action_id
    THEN CHOOSE i \in 1..Len(actions) :
            /\ actions[i].id = action_id
            /\ \A j \in 1..(i - 1) : actions[j].id # action_id
    ELSE 0

approve_action(table, action_id, lookup_fault, token_fault, outcome, update_fault) ==
    LET found == get_pending_actions(table, NoUser, lookup_fault)
        actions == found.value
        k == FirstWithId(actions, action_id)
        action == actions[k]
        user_id == action.user_id
        provider == action.provider
        draft_payload == action.draft_payload
        token_data == get_user_token(user_id, provider, token_fault)
        known == \/ provider = "asana" /\ Get(draft_payload, "tool", ABSENT) = "create_asana_task"
                 \/ provider = "google" /\ Get(draft_payload, "tool", ABSENT) = "send_gmail"
        executed == Executor(outcome)
        result == IF known THEN executed.value ELSE ABSENT
        status == IF Truthy(result) /\ ~HasError(result) THEN "executed" ELSE "rejected"
        updated == update_action_status(table, action_id, status, update_fault)
        c1 == [NoCalls EXCEPT !.lookup = 1]
        c2 == [c1 EXCEPT !.token = 1]
        c3 == [c2 EXCEPT !.executor = IF known THEN 1 ELSE 0]
        c4 == [c3 EXCEPT !.update = 1]
    IN  IF found.raised # NoRaise
        THEN Approved(FALSE, ExceptionText(found.raised), ABSENT, table, c1)
        ELSE IF k = 0
        THEN Approved(FALSE, NotFoundError, ABSENT, table, c1)
        ELSE IF token_data.raised # NoRaise
        THEN Approved(FALSE, ExceptionText(token_data.raised), ABSENT, table, c2)
        ELSE IF ~Truthy(token_data.value)
        THEN Approved(FALSE, NoTokenError(provider), ABSENT, table, c2)
        ELSE IF known /\ executed.raised # NoRaise
        THEN Approved(FALSE, ExceptionText(executed.raised), ABSENT, table, c3)
        ELSE IF updated.raised # NoRaise
        THEN Approved(FALSE, ExceptionText(updated.raised), ABSENT, updated.table, c4)
        ELSE Approved(status = "executed", NoError, result, updated.table, c4)

----------------------------------------------------------------------------
(* main.py: the request handlers                                           *)

\* a query can fail only on a connection there is
FaultsNow == IF connection = "open" THEN Faults ELSE {"ok"}

NoRequest == [op |-> "-", user_id |-> NoUser, action_id |-> 0, provider |-> "-", tool |-> "-"]

NoEnv == [token |-> "-", llm |-> "-", inserts |-> <<>>, lookup |-> "-", executor |-> "-",
          update |-> "-"]

NoResp == [http |-> 0, status |-> ABSENT, detail |-> ABSENT, raised |-> NoRaise,
           message |-> ABSENT, plan |-> <<>>, success |-> FALSE, error |-> NoError,
           result |-> ABSENT, actions |-> <<>>]

\* raise HTTPException(status_code=500, detail=str(e))
ServerError(e) == [NoResp EXCEPT !.http = 500, !.detail = e, !.raised = e]

\* the items that come first when the model proposes several actions
LeadItems == { Dict("create_asana_task", "asana_api"), Dict("send_gmail", "gmail") }

\* the lists of actions the model may propose in a turn
TurnItems ==
    {<<>>} \cup { Append(lead, item) : lead \in SeqsUpTo(LeadItems, MaxActions - 1),
                                       item \in ProposedItems }

\* what the model may answer in a turn
TurnOutputs ==
    { <<JsonLine(JObject("ok", ActionsList(items)))>> : items \in TurnItems }
    \cup { <<Fence, JsonLine(JArray(<<item>>)), Fence>> : item \in LeadItems }
    \cup { <<JsonLine(JObject("ok", ActionsNull))>>,
           <<JsonLine(JObject(ABSENT, NoActions))>>,
           <<JsonLine(JScalar("5"))>>,
           <<Garbage>> }

LlmOutcomes ==
    { Raised("ConnectionError", <<>>) } \cup { Returned(text) : text \in TurnOutputs }

AllOk == [i \in 1..MaxActions |-> "ok"]

\* POST /ask-agent
ask_agent ==
    \E user_id \in Users, token_fault \in FaultsNow, llm \in LlmOutcomes :
        \E attempted \in { get_agent_response(ai_pending_actions, user_id, token_fault,
                                              llm, AllOk).calls } :
            /\ Len(ai_pending_actions) + attempted.insert <= MaxRows
            /\ attempted.llm = 0 => llm = Raised("ConnectionError", <<>>)
            /\ \E faults \in [1..attempted.insert -> InsertFaults] :
                \E response \in { get_agent_response(ai_pending_actions, user_id,
                                                     token_fault, llm, faults) } :
                LET c == response.calls
                IN  /\ ai_pending_actions' = response.table
                    /\ request' = [NoRequest EXCEPT !.op = "ask", !.user_id = user_id]
                    /\ env' = [NoEnv EXCEPT
                                 !.token = token_fault,
                                 !.llm = IF c.llm = 0 THEN "-"
                                         ELSE IF llm.raised # NoRaise THEN "raise" ELSE "ok",
                                 !.inserts = faults]
                    /\ resp' = IF response.raised # NoRaise
                               THEN ServerError(response.raised)
                               ELSE [NoResp EXCEPT !.http = 200, !.status = "success",
                                                   !.message = response.message,
                                                   !.plan = response.plan]
                    /\ calls' = c
                    /\ UNCHANGED <<connection, user_connections, llm_response, parsed,
                                   dispatches>>

\* GET /pending-actions/{user_id}
pending_actions ==
    \E user_id \in Users, lookup_fault \in FaultsNow :
        \E actions \in { list_pending_actions(ai_pending_actions, user_id, lookup_fault) } :
            /\ request' = [NoRequest EXCEPT !.op = "list", !.user_id = user_id]
            /\ env' = [NoEnv EXCEPT !.lookup = lookup_fault]
            /\ resp' = IF actions.raised # NoRaise
                       THEN ServerError(actions.raised)
                       ELSE [NoResp EXCEPT !.http = 200, !.status = "success",
                                           !.actions = actions.value]
            /\ calls' = [NoCalls EXCEPT !.lookup = 1]
            /\ UNCHANGED <<dispatches, connection, user_connections, ai_pending_actions,
                           llm_response, parsed>>

\* POST /approve-action; approval.user_id is not read
approve ==
    \E action_id \in 1..(MaxRows + 1), lookup_fault \in FaultsNow, token_fault \in FaultsNow,
       outcome \in ExecutorOutcomes, update_fault \in FaultsNow :
        \E result \in { approve_action(ai_pending_actions, action_id, lookup_fault,
                                       token_fault, outcome, update_fault) } :
        LET c == result.calls
        IN  /\ c.token = 0 => token_fault = "ok"
            /\ c.executor = 0 => outcome = "ok"
            /\ c.update = 0 => update_fault = "ok"
            /\ ai_pending_actions' = result.table
            /\ request' = [NoRequest EXCEPT !.op = "approve", !.action_id = action_id]
            /\ env' = [NoEnv EXCEPT !.lookup = lookup_fault,
                                    !.token = IF c.token = 0 THEN "-" ELSE token_fault,
                                    !.executor = IF c.executor = 0 THEN "-" ELSE outcome,
                                    !.update = IF c.update = 0 THEN "-" ELSE update_fault]
            /\ resp' = [NoResp EXCEPT
                          !.http = 200,
                          !.status = IF result.success THEN "success" ELSE "error",
                          !.message = IF result.success THEN "Action executed successfully"
                                      ELSE Get(result.error, "msg", "Execution failed"),
                          !.success = result.success,
                          !.error = result.error,
                          !.result = result.result]
            /\ calls' = c
            /\ c.executor = 1 => dispatches[action_id] < MaxDispatches
            /\ dispatches' = IF c.executor = 1
                             THEN [dispatches EXCEPT ![action_id] = @ + 1]
                             ELSE dispatches
            /\ UNCHANGED <<connection, user_connections, llm_response, parsed>>

\* class ActionData(BaseModel): the fields it declares
ActionData == {"tool", "provider", "parameters"}

\* raise HTTPException(status_code=400, ...) inside the try block
BadRequest == "HTTPException(400)"

\* the try block of execute_action; body is the JSON the client sent
ExecuteBody(body, token_fault, outcome) ==
    LET token == IF "user_id" \in ActionData
                 THEN get_user_token(body.user_id, body.provider, token_fault)
                 ELSE Raised("AttributeError", ABSENT)
        executed == Executor(outcome)
        c == [NoCalls EXCEPT !.token = 1]
    IN  IF token.raised # NoRaise
        THEN [raised |-> token.raised, value |-> ABSENT, calls |-> NoCalls]
        ELSE IF ~Truthy(token.value)
        THEN [raised |-> BadRequest, value |-> ABSENT, calls |-> c]
        ELSE IF \/ body.provider = "asana" /\ body.tool = "create_asana_task"
                \/ body.provider = "google" /\ body.tool = "send_gmail"
        THEN [raised |-> executed.raised, value |-> executed.value,
              calls |-> [c EXCEPT !.executor = 1]]
        ELSE [raised |-> BadRequest, value |-> ABSENT, calls |-> c]

\* POST /execute-action; "except Exception" also catches the HTTPException
\* raised inside the try block
execute_action ==
    \E user_id \in Users, provider \in {"asana", "google", "slack"},
       tool \in {"create_asana_task", "send_gmail"}, outcome \in ExecutorOutcomes :
        \E done \in { ExecuteBody([user_id |-> user_id, provider |-> provider,
                                    tool |-> tool], "ok", outcome) } :
            /\ done.calls.executor = 0 => outcome = "ok"
            /\ request' = [NoRequest EXCEPT !.op = "execute", !.user_id = user_id,
                                            !.provider = provider, !.tool = tool]
            /\ env' = [NoEnv EXCEPT !.executor = IF done.calls.executor = 0 THEN "-"
                                                 ELSE outcome]
            /\ resp' = IF done.raised # NoRaise
                       THEN ServerError(done.raised)
                       ELSE [NoResp EXCEPT !.http = 200, !.status = "success",
                                           !.result = done.value]
            /\ calls' = done.calls
            /\ UNCHANGED <<dispatches, connection, user_connections, ai_pending_actions,
                           llm_response, parsed>>

----------------------------------------------------------------------------
(* The service                                                             *)

\* the credential store the runs start from: user 1 has connected both
\* providers, user 0 none
TokenStores == { {<<1, "asana">>, <<1, "google">>} }

NotParsed == [raised |-> "-", message |-> ABSENT, actions |-> NoActions]

NoDispatches == [id \in 1..(MaxRows + 1) |-> 0]

\* after "agent_brain = AgentBrain()": connect() succeeded or failed
Init ==
    /\ connection \in {"none", "open"}
    /\ user_connections \in TokenStores
    /\ ai_pending_actions = <<>>
    /\ request = NoRequest
    /\ env = NoEnv
    /\ resp = NoResp
    /\ calls = NoCalls
    /\ llm_response = <<>>
    /\ parsed = NotParsed
    /\ dispatches = NoDispatches

Next == ask_agent \/ pending_actions \/ approve \/ execute_action

Spec == Init /\ [][Next]_vars

----------------------------------------------------------------------------
(* The Response Normalizer on its own                                      *)

\* the JSON documents a line may hold
ParseDocs ==
    { JObject("ok", ActionsList(<<Dict("send_gmail", "gmail")>>)),
      JObject("ok", NoActions),
      JObject(ABSENT, ActionsList(<<>>)),
      JObject(ABSENT, NoActions),
      JObject("ok", ActionsNull),
      JArray(<<>>),
      JArray(<<Dict("create_asana_task", "asana_api"), NonDict>>),
      JScalar("\"hi\""), JScalar("5"), JScalar("true"), JScalar("null") }

LineTokens == {Fence, Blank, Garbage} \cup { JsonLine(d) : d \in ParseDocs }

RawTexts == SeqsUpTo(LineTokens, MaxLines)

InitParse ==
    /\ connection = "open"
    /\ user_connections \in TokenStores
    /\ ai_pending_actions = <<>>
    /\ request = NoRequest
    /\ env = NoEnv
    /\ resp = NoResp
    /\ calls = NoCalls
    /\ llm_response \in RawTexts
    /\ parsed = NotParsed
    /\ dispatches = NoDispatches

\* result = self._parse_llm_response(response)
parse_llm_response ==
    /\ parsed = NotParsed
    /\ parsed' = _parse_llm_response(llm_response)
    /\ UNCHANGED <<dispatches, connection, user_connections, ai_pending_actions, request, env,
                   resp, calls, llm_response>>

NextParse == parse_llm_response

SpecParse == InitParse /\ [][NextParse]_vars

----------------------------------------------------------------------------
(* The Mapper and the persistence of a turn's actions on their own         *)

\* what the model may write as an action's "provider" and "tool"
RawProviders == {"gmail", "asana_api", "google", "asana", "slack", "", ABSENT}
RawTools == {"create_asana_task", "send_gmail", "post_message", ABSENT}

RawActions == { Dict(tool, provider) : tool \in RawTools, provider \in RawProviders }

\* the model's answer: a message and up to MaxActions actions
RawPlans ==
    { <<JsonLine(JObject("ok", ActionsList(items)))>> :
          items \in SeqsUpTo(RawActions, MaxActions) }

InitMap ==
    /\ connection = "open"
    /\ user_connections \in TokenStores
    /\ ai_pending_actions = <<>>
    /\ request = NoRequest
    /\ env = NoEnv
    /\ resp = NoResp
    /\ calls = NoCalls
    /\ llm_response \in RawPlans
    /\ parsed = NotParsed
    /\ dispatches = NoDispatches

\* get_agent_response for a turn in which the model answered llm_response
persist_actions ==
    /\ request = NoRequest
    /\ \E user_id \in Users :
        \E result \in { _parse_llm_response(llm_response) } :
        \E faults \in [1..Len(result.actions.items) -> InsertFaults] :
        \E response \in { get_agent_response(ai_pending_actions, user_id, "ok",
                                             Returned(llm_response), faults) } :
            /\ ai_pending_actions' = response.table
            /\ request' = [NoRequest EXCEPT !.op = "ask", !.user_id = user_id]
            /\ env' = [NoEnv EXCEPT !.token = "ok", !.llm = "ok", !.inserts = faults]
            /\ resp' = [NoResp EXCEPT !.http = 200, !.status = "success",
                                      !.message = response.message,
                                      !.plan = response.plan]
            /\ calls' = response.calls
            /\ parsed' = result
            /\ UNCHANGED <<connection, user_connections, llm_response, dispatches>>

NextMap == persist_actions

SpecMap == InitMap /\ [][NextMap]_vars

----------------------------------------------------------------------------
(* Claims                                                                  *)

Rows == 1..Len(ai_pending_actions)

\* the request is an approval naming row i, and the handler got as far as
\* reading the token of the row's user
ApprovalReached(i) ==
    /\ request.op = "approve"
    /\ ai_pending_actions[i].id = request.action_id
    /\ env.token # "-"

HasCredential(row) == <<row.user_id, row.provider>> \in user_connections

(* C1: once approve_action has found the pending action and a stored       *)
(* credential for its user and provider, the action's status is written    *)
(* when it returns: 'executed' if the executor produced a result without   *)
(* an error indicator, 'rejected' in every other case, never 'pending'.    *)
C1_StatusWrittenOnceDispatched ==
    \A i \in Rows :
        ( /\ ApprovalReached(i)
          /\ env.token = "ok"
          /\ HasCredential(ai_pending_actions[i]) )
        => ai_pending_actions[i].status =
               IF env.executor = "ok" THEN "executed" ELSE "rejected"

(* C2: a row is created 'pending'; its status changes only in an approval, *)
(* only from 'pending' to 'executed' or 'rejected'; a row that is          *)
(* 'executed' or 'rejected' keeps its status; no row is ever deleted or    *)
(* replaced.                                                               *)
C2_Lifecycle ==
    [][ /\ Len(ai_pending_actions') >= Len(ai_pending_actions)
        /\ \A i \in 1..Len(ai_pending_actions) :
              /\ [ai_pending_actions'[i] EXCEPT !.status = "pending"]
                    = [ai_pending_actions[i] EXCEPT !.status = "pending"]
              /\ ai_pending_actions'[i].status # ai_pending_actions[i].status
                    => /\ ai_pending_actions[i].status = "pending"
                       /\ ai_pending_actions'[i].status \in {"executed", "rejected"}
                       /\ request'.op = "approve"
        /\ \A i \in (Len(ai_pending_actions) + 1)..Len(ai_pending_actions') :
              /\ ai_pending_actions'[i].status = "pending"
              /\ request'.op = "ask"
      ]_vars

\* an approval naming a row that is already 'executed' was answered
\* "Action not found", beside a row that was 'rejected'
C2_Witness ==
    /\ request.op = "approve"
    /\ resp.error.msg = "Action not found"
    /\ \E i \in Rows : /\ ai_pending_actions[i].id = request.action_id
                       /\ ai_pending_actions[i].status = "executed"
    /\ \E i \in Rows : ai_pending_actions[i].status = "rejected"

(* C3: every persisted PendingAction has a provider in {"google",          *)
(* "asana"}, whatever provider the model emitted.                          *)
C3_ProviderCanonical ==
    \A i \in Rows : ai_pending_actions[i].provider \in CanonicalProviders

(* C4: approve_action with an id that identifies no existing action        *)
(* returns success false with error "Action not found", calls no executor  *)
(* and leaves every row as it was.                                         *)
C4_UnknownIdNotFound ==
    [][ ( /\ request'.op = "approve"
          /\ \A i \in 1..Len(ai_pending_actions) :
                ai_pending_actions[i].id # request'.action_id )
        => /\ resp'.success = FALSE
           /\ resp'.error = [msg |-> "Action not found", arg |-> ABSENT]
           /\ calls'.executor = 0
           /\ ai_pending_actions' = ai_pending_actions
      ]_vars

C6_PlanIsWhatWasPersisted ==
    [][ ( /\ request'.op = "ask"
          /\ env'.llm = "ok"
          /\ env'.token = "ok"
          /\ \A j \in 1..Len(env'.inserts) : env'.inserts[j] = "ok" ) =>
          LET created == SubSeq(ai_pending_actions', Len(ai_pending_actions) + 1,
                                Len(ai_pending_actions'))
          IN  /\ Len(resp'.plan) = Len(created)
              /\ \A j \in 1..Len(created) :
                    /\ resp'.plan[j].id = created[j].id
                    /\ resp'.plan[j].provider = created[j].draft_payload.provider
                    /\ resp'.plan[j].tool = created[j].draft_payload.tool
      ]_vars

\* the model could not be invoked, or the database could not be read, during
\* the turn
TurnFailure ==
    \/ connection = "none"
    \/ env.llm = "raise"
    \/ env.token = "error"

(* C7: a failure of the language model or of the database during a turn    *)
(* is caught at the turn boundary: get_agent_response does not raise and   *)
(* returns the fallback message with an empty plan, the model having been  *)
(* called at most once.                                                    *)
C7_TurnFailureIsFallback ==
    (request.op = "ask" /\ TurnFailure)
    => /\ resp.raised = NoRaise
       /\ resp.message = "I encountered an internal error while thinking. Please try again."
       /\ resp.plan = <<>>
       /\ calls.llm <= 1

(* C8: POST /execute-action answers 400 when the user has no stored        *)
(* credential for the provider or the (provider, tool) pair is neither     *)
(* (asana, create_asana_task) nor (google, send_gmail); otherwise it calls *)
(* the executor once and answers {status, data}. It creates no row and     *)
(* changes no status. (Stated for a service that holds a database          *)
(* connection.)                                                            *)
C8_DirectExecute ==
    [][ (request'.op = "execute" /\ connection = "open") =>
          LET supported ==
                  \/ request'.provider = "asana" /\ request'.tool = "create_asana_task"
                  \/ request'.provider = "google" /\ request'.tool = "send_gmail"
              credential == <<request'.user_id, request'.provider>> \in user_connections
          IN  /\ IF credential /\ supported
                 THEN resp'.http = 200 /\ resp'.status = "success" /\ calls'.executor = 1
                 ELSE resp'.http = 400 /\ calls'.executor = 0
              /\ ai_pending_actions' = ai_pending_actions
      ]_vars

(* C9: listing the pending actions of a user, user 0 included, returns     *)
(* exactly the rows of that user that are 'pending', most recent first.    *)
(* (Stated for the listings whose query the database answered.)            *)
C9_ListIsOwnPending ==
    (request.op = "list" /\ resp.http = 200 /\ env.lookup = "ok")
    => /\ \A j \in 1..Len(resp.actions) :
             /\ resp.actions[j].user_id = request.user_id
             /\ resp.actions[j].status = "pending"
             /\ \E i \in Rows : ai_pending_actions[i] = resp.actions[j]
       /\ \A i \in Rows :
             ( /\ ai_pending_actions[i].user_id = request.user_id
               /\ ai_pending_actions[i].status = "pending" )
             => \E j \in 1..Len(resp.actions) : resp.actions[j] = ai_pending_actions[i]
       /\ \A j, k \in 1..Len(resp.actions) : j < k => resp.actions[j].id > resp.actions[k].id

(* C10: _parse_llm_response never raises and returns a {message, actions}  *)
(* pair: the fixed fallback when the output is no JSON, a parsed array as  *)
(* the actions with the synthetic message, any other non-mapping as its    *)
(* str() with no actions, and of a mapping its "message" (default "Done.") *)
(* and its "actions" (default empty).                                      *)
C10_NormalizerTotal ==
    parsed # NotParsed =>
        LET loaded == json_loads(Unfence(llm_response))
            data == loaded.value
        IN  /\ parsed.raised = NoRaise
            /\ loaded.raised # NoRaise =>
                  /\ parsed.message = "I couldn't understand the AI output."
                  /\ parsed.actions = ActionsList(<<>>)
            /\ (loaded.raised = NoRaise /\ data.type = "list") =>
                  /\ parsed.message = "I've prepared the actions you requested:"
                  /\ parsed.actions = data.actions
            /\ (loaded.raised = NoRaise /\ data.type = "scalar") =>
                  /\ parsed.message = PyStr(data.lit)
                  /\ parsed.actions = ActionsList(<<>>)
            /\ (loaded.raised = NoRaise /\ data.type = "dict") =>
                  /\ parsed.message = (IF data.message = ABSENT THEN "Done." ELSE data.message)
                  /\ parsed.actions = (IF data.actions = NoActions THEN ActionsList(<<>>)
                                       ELSE data.actions)

\* a fenced output whose content is no JSON was answered with the fallback
C10_Witness ==
    /\ parsed # NotParsed
    /\ llm_response = <<Fence, Garbage, Fence>>
    /\ parsed.raised = NoRaise
    /\ parsed.message = "I couldn't understand the AI output."

\* the canonical provider of a raw provider, as the specification gives it
Canonical(provider) ==
    IF provider = "gmail" THEN "google"
    ELSE IF provider = "asana_api" THEN "asana"
    ELSE provider

\* the action_type of a tool name, as the specification gives it
TypeOfTool(tool) ==
    IF tool = "create_asana_task" THEN "create_task"
    ELSE IF tool = "send_gmail" THEN "send_email"
    ELSE tool

\* a key the model left out is stored as the empty string
Stored(x) == IF x = ABSENT THEN "" ELSE x

\* the actions the model proposed in the turn
Proposed == parsed.actions.items

\* the positions of the proposed actions whose INSERT was executed, in order
PersistedPositions ==
    LET F[i \in 0..Len(env.inserts)] ==
            IF i = 0 THEN <<>>
            ELSE IF env.inserts[i] = "error" THEN F[i - 1] ELSE Append(F[i - 1], i)
    IN  F[Len(env.inserts)]

(* C11: for every proposed action that is persisted, the provider stored   *)
(* is the canonicalisation of the raw provider ("gmail" -> "google",       *)
(* "asana_api" -> "asana", anything else unchanged, a missing provider     *)
(* stored as ''), the action_type stored is derived from the raw tool      *)
(* ("create_asana_task" -> "create_task", "send_gmail" -> "send_email",    *)
(* anything else unchanged), and mapping the provider of any proposed      *)
(* action twice gives the same as mapping it once.                         *)
C11_MapperCanonicalises ==
    request.op = "ask" =>
        /\ Len(ai_pending_actions) = Len(PersistedPositions)
        /\ \A j \in 1..Len(PersistedPositions) :
              LET raw == Proposed[PersistedPositions[j]]
                  row == ai_pending_actions[j]
              IN  /\ row.provider = Stored(Canonical(raw.provider))
                  /\ row.action_type = Stored(TypeOfTool(raw.tool))
                  /\ row.draft_payload.provider = Canonical(raw.provider)
        /\ \A i \in 1..Len(Proposed) :
              /\ MapProvider(MapProvider(Proposed[i])) = MapProvider(Proposed[i])
              /\ MapProvider(Proposed[i]).provider = Canonical(Proposed[i].provider)

\* a turn proposed a "gmail" action and an "asana_api" action and both were
\* persisted, as "google" / send_email and as "asana" / create_task
C11_Witness ==
    /\ request.op = "ask"
    /\ Len(Proposed) = 2
    /\ Proposed[1].provider = "gmail" /\ Proposed[1].tool = "send_gmail"
    /\ Proposed[2].provider = "asana_api" /\ Proposed[2].tool = "create_asana_task"
    /\ Len(ai_pending_actions) = 2
    /\ ai_pending_actions[1].provider = "google"
    /\ ai_pending_actions[1].action_type = "send_email"
    /\ ai_pending_actions[2].provider = "asana"
    /\ ai_pending_actions[2].action_type = "create_task"

(* C12: over any sequence of approvals, whatever the outcome of the status *)
(* write, the executor is called for a PendingAction at most once. (The    *)
(* handlers are coroutines that never await, so the event loop runs each   *)
(* approval to its end before the next: every interleaving is a sequence.) *)
C12_DispatchedAtMostOnce ==
    \A id \in DOMAIN dispatches : dispatches[id] <= 1

============================================================================
